---- MODULE Spec2Model ----
(***************************************************************************)
(* The two notebooks of the repository as state machines:                  *)
(*   - the 2D pneumothorax notebook (src/unnamed/part_000): DicomDataset,  *)
(*     data_transform, train_loader and train_model;                       *)
(*   - the 3D MRI notebook (src/2_computer_vision/CNNs/                    *)
(*     3d_classification.ipynb): train_loader / val_loader and the         *)
(*     two-phase train_model with its checkpoint.                          *)
(* The network, the criterion and the optimizer are arguments of           *)
(* train_model: their outputs (predicted classes, the batch mean loss) are *)
(* inputs drawn from small sets.  Real numbers are exact rationals         *)
(* <<numerator, denominator>>; losses are integers in units of one quantum.*)
(***************************************************************************)
EXTENDS Integers, Sequences, FiniteSets, Bags, TLC

VARIABLES
    nb,               \* which notebook's train_model runs: "2D" or "3D"
    data,             \* phase -> rows of the dataset behind dataloaders[phase]
    dataset_sizes,    \* phase -> len(dataset), the divisor read by train_model
    batch_size,       \* batch_size of the loaders
    num_epochs,       \* n_epochs / num_epochs
    model,            \* behaviour of the model argument
    criterion,        \* behaviour of the criterion argument
    pc,               \* position of train_model
    epoch,            \* loop variable of "for epoch in range(...)"
    phase,            \* loop variable of "for phase in ['train','val']"
    remaining,        \* samples the loader's current pass has not yielded (a bag)
    pos,              \* number of samples the current pass has yielded
    running_loss,
    running_corrects,
    epoch_loss,
    epoch_acc,
    best_metric,
    loss_over_time,
    params,           \* version of the model parameters (number of optimizer steps)
    training,         \* model.train() / model.eval() mode flag
    checkpoint,       \* content of models/3d_classification_model.pth
    saves,            \* log: the epochs whose val phase called torch.save
    val_accs,         \* log: the val accuracy of every finished epoch
    batch_log,        \* log: <<loss, size>> of every batch of the current pass
    n_match,          \* log: samples of the current pass with pred = label
    n_seen,           \* log: samples of the current pass
    passes,           \* log: <<epoch, phase, samples>> of every pass that ran to its end
    fetches,          \* log: number of batches requested from a loader
    last_fetch,       \* log: rows and outcome of the last batch request
    classmapper,      \* DicomDataset.classmapper
    returned,         \* what train_model returned
    epoch_means,      \* log (2D): sum(loss * size) / samples of every finished epoch
    printed,          \* log (2D): the epoch_loss printed at the end of every epoch
    items,            \* results of the __getitem__ calls made on the dataset
    loader,           \* a DataLoader: [n, batch_size, shuffle]
    order,            \* the sampler's index order for the loader's current pass
    cursor,           \* how many indices of order the batch sampler has consumed
    yielded,          \* the batches the current pass has yielded
    pass_no,          \* number of passes of the loader that ended
    prev_order,       \* log: the sampler order of the pass before the current one
    events,           \* log: every forward pass and checkpoint decision of the run
    index_queues,     \* worker -> the batch requests sent to it and not yet taken
    working,          \* worker -> the batch request it is fetching, if any
    data_queue,       \* the fetched batches the workers have put, in put order
    task_info,        \* batches received out of order, kept until their turn
    send_idx,         \* number of batch requests sent to the workers
    rcvd_idx          \* number of batches delivered to the loop

vars == <<nb, data, dataset_sizes, batch_size, num_epochs, model, criterion,
          pc, epoch, phase, remaining, pos, running_loss, running_corrects,
          epoch_loss, epoch_acc, best_metric, loss_over_time, params, training,
          checkpoint, saves, val_accs, batch_log, n_match, n_seen, passes,
          fetches, last_fetch, classmapper, returned, epoch_means, printed, items,
          loader, order, cursor, yielded, pass_no, prev_order, events,
          index_queues, working, data_queue, task_info, send_idx, rcvd_idx>>

\* The arguments and globals train_model reads and never assigns
args == <<nb, data, dataset_sizes, batch_size, num_epochs, model, criterion,
          classmapper>>

\* The state of a dataset or loader used on its own
standalone == <<items, loader, order, cursor, yielded, pass_no, prev_order,
                index_queues, working, data_queue, task_info, send_idx, rcvd_idx>>

\* The state of the worker processes of a loader with num_workers > 0
workerVars == <<index_queues, working, data_queue, task_info, send_idx, rcvd_idx>>

-----------------------------------------------------------------------------
(* Bounds of the model *)

MaxN == 3
MaxB == 2
MaxEpochs == 2
MaxLoss == 2
CkptEpochs == 3
ErrN == 2
MaxLoaderN == 3
MaxLoaderB == 3
MaxPasses == 2
MaxDim == 2
MaxWorkerN == 5
MaxWorkerB == 2
MaxPhaseN == 3

-----------------------------------------------------------------------------
(* Constants of the notebooks *)

TargetSize == 224
BatchSize3D == 2
TrainCount3D == 10
ValCount3D == 10
NumWorkers == 2
PrefetchFactor == 2

classes == <<"No Pneumothorax", "Pneumothorax">>

idx_to_class == [i \in 0..(Len(classes) - 1) |-> classes[i + 1]]

\* Mutant: the indices are counted from the end of the list
class_to_idx_reversed ==
    [v \in {idx_to_class[k] : k \in DOMAIN idx_to_class} |->
        CHOOSE k \in DOMAIN idx_to_class : idx_to_class[Len(classes) - 1 - k] = v]

\* {v:k for k,v in idx_to_class.items()}: of two keys with one value the
\* later one stays
class_to_idx ==
    [v \in {idx_to_class[k] : k \in DOMAIN idx_to_class} |->
        CHOOSE k \in DOMAIN idx_to_class :
            /\ idx_to_class[k] = v
            /\ \A j \in DOMAIN idx_to_class : idx_to_class[j] = v => j <= k]

labels3D == <<0, 0, 0, 1, 0, 0, 0, 1, 1, 0, 0, 0, 1, 0, 1, 0, 1, 0, 1, 0>>

Classes == {0, 1}

NoValue == <<>>

-----------------------------------------------------------------------------
(* Rational arithmetic: a / b of two Python numbers, exactly *)

Div(a, b) == <<a, b>>

RatEq(x, y) == x[1] * y[2] = y[1] * x[2]

RatGt(x, y) == x[1] * y[2] > y[1] * x[2]

RECURSIVE SeqSum(_)
SeqSum(s) == IF s = <<>> THEN 0 ELSE Head(s) + SeqSum(Tail(s))

Range(s) == {s[i] : i \in DOMAIN s}

BagOfSeq(s) == [r \in Range(s) |-> Cardinality({i \in DOMAIN s : s[i] = r})]

Min(a, b) == IF a < b THEN a ELSE b

CeilDiv(n, b) == (n + b - 1) \div b

-----------------------------------------------------------------------------
(* Datasets *)

Files == {"ok", "corrupt"}

\* Resize(224) on an h x w image: the smaller edge becomes 224, the other
\* one int(224 * long / short); ToTensor puts the single channel first.
ResizeShape(h, w) ==
    IF w <= h THEN <<1, (TargetSize * h) \div w, TargetSize>>
              ELSE <<1, TargetSize, (TargetSize * w) \div h>>

\* Mutant: a class without an entry is mapped to class 0, as by m.get(cls, 0)
GetItem2DDefault(row, m) ==
    IF row.file # "ok"
    THEN [error |-> "DecodeError", image |-> NoValue, label |-> NoValue]
    ELSE [error |-> "none", image |-> ResizeShape(row.h, row.w),
          label |-> IF row.cls \in DOMAIN m THEN m[row.cls] ELSE 0]

\* DicomDataset.__getitem__ on one row of labels_df with class mapper m
GetItem2D(row, m) ==
    IF row.file # "ok"
    THEN [error |-> "DecodeError", image |-> NoValue, label |-> NoValue]
    ELSE IF row.cls \notin DOMAIN m
    THEN [error |-> "KeyError", image |-> NoValue, label |-> NoValue]
    ELSE [error |-> "none", image |-> ResizeShape(row.h, row.w),
          label |-> m[row.cls]]

\* ImageDataset.__getitem__ with Resize((96, 96, 96)): the label is labels[i]
GetItem3D(row) ==
    IF row.file # "ok"
    THEN [error |-> "DecodeError", image |-> NoValue, label |-> NoValue]
    ELSE [error |-> "none", image |-> <<1, 96, 96, 96>>, label |-> row.cls]

GetItem(row) == IF nb = "2D" THEN GetItem2D(row, classmapper) ELSE GetItem3D(row)

\* The loader's fetch of one batch: __getitem__ per sample in order, the
\* first error raised as it is; then the default collate stacks the images.
Fetch(rows) ==
    LET got == [i \in DOMAIN rows |-> GetItem(rows[i])]
        bad   == {i \in DOMAIN rows : got[i].error # "none"}
        first == CHOOSE i \in bad : \A j \in bad : i <= j
    IN  IF bad # {}
        THEN [error |-> got[first].error, labels |-> <<>>]
        ELSE IF \E i, j \in DOMAIN rows : got[i].image # got[j].image
        THEN [error |-> "ShapeError", labels |-> <<>>]
        ELSE [error |-> "none", labels |-> [i \in DOMAIN rows |-> got[i].label]]

-----------------------------------------------------------------------------
(* Loaders, as train_model sees them *)

\* shuffle=True for both train loaders, the default False for val_loader
Shuffle(ph) == ph = "train"

\* The batches the current pass may yield next
NextBatches ==
    LET k == Min(batch_size, BagCardinality(remaining))
    IN  IF Shuffle(phase)
        THEN {s \in [1..k -> BagToSet(remaining)] : BagOfSeq(s) \sqsubseteq remaining}
        ELSE {SubSeq(data[phase], pos + 1, pos + k)}

\* Outputs of the model argument on a batch of n samples: predicted classes
Predictions(n) ==
    CASE model = "const0" -> {[i \in 1..n |-> 0]}
      [] model = "const1" -> {[i \in 1..n |-> 1]}
      [] OTHER            -> [1..n -> Classes]

\* Outputs of the criterion argument: the mean loss of a batch
Losses == IF criterion = "const" THEN {1} ELSE 1..MaxLoss

-----------------------------------------------------------------------------
(* Steps of the loop bodies *)

\* Mutant: one count per batch whose predictions all match, not per sample
CorrectsPerBatch(preds, labels) == IF preds = labels THEN 1 ELSE 0

\* torch.sum(preds == labels.data)
RECURSIVE Corrects(_, _)
Corrects(preds, labels) ==
    IF preds = <<>> THEN 0
    ELSE (IF Head(preds) = Head(labels) THEN 1 ELSE 0)
         + Corrects(Tail(preds), Tail(labels))

\* Mutant: the batch loss added without its weight, the batch size
AccumulateLossUnweighted(rl, loss, size) == rl + loss

\* 3D: running_loss += loss.item() * inputs.size(0)
AccumulateLoss3D(rl, loss, size) == rl + loss * size

\* 2D: running_loss += loss.item(); running_loss += loss.item() * inputs.size(0)
AccumulateLoss2D(rl, loss, size) == (rl + loss) + loss * size

\* epoch_loss = running_loss / <dataset size>
EpochLoss(rl, n) == Div(rl, n)

\* epoch_acc = running_corrects.double() / <dataset size>
EpochAcc(rc, n) == Div(rc, n)

\* Mutant: a tie counts as an improvement
IsBestOrEqual(acc, best) == ~RatGt(best, acc)

\* if epoch_acc > best_metric
IsBest(acc, best) == RatGt(acc, best)

\* Mutant: the parameters written are those the model had at entry
StateDictAtEntry(p) == <<0>>

\* torch.save(model.state_dict, ...): the file holds the model's parameters
\* as they are when it is written
StateDict(p) == <<p>>

\* Mutant: the best value is not updated
NewBestStale(acc, best) == best

\* best_metric = epoch_acc
NewBest(acc, best) == acc

\* Mutant: the best value starts at the top of the accuracy range
InitialBestMetricOne == Div(1, 1)

\* best_metric = -1
InitialBestMetric == Div(0 - 1, 1)

\* Mutant: the history keeps the last epoch only
HistoryOverwrite(hist, x) == <<x>>

\* loss_over_time.append(epoch_loss)
HistoryAppend(hist, x) == Append(hist, x)

\* Mutant: one iteration too many
EpochsLeftInclusive(e, n) == e <= n

\* for epoch in range(num_epochs): whether the loop has an iteration left
EpochsLeft(e, n) == e < n

\* with torch.set_grad_enabled(phase == 'train')
GradEnabled(ph) == ph = "train"

\* Mutant: the update is made in both phases
TakesStepAlways(ph) == TRUE

\* if phase == 'train': loss.backward(); optimizer.step()
TakesStep(ph) == ph = "train"

\* Mutant: the checkpoint decision is taken at the end of either phase
DecidesAlways(ph) == TRUE

\* if phase=='val': the checkpoint decision
Decides(ph) == ph = "val"

\* The recomputation of a pass from its logged batches: sum of loss * size
RECURSIVE WeightedSum(_)
WeightedSum(log) ==
    IF log = <<>> THEN 0 ELSE Head(log)[1] * Head(log)[2] + WeightedSum(Tail(log))

\* The number of samples with pred = label, counted sample by sample
Matches(preds, labels) == Cardinality({i \in DOMAIN preds : preds[i] = labels[i]})

-----------------------------------------------------------------------------
(* train_model of the 3D notebook *)

BeginEpoch3D ==
    /\ nb = "3D" /\ pc = "epoch" /\ EpochsLeft(epoch, num_epochs)
    /\ phase' = "train"
    /\ pc' = "phase"
    /\ UNCHANGED <<args, standalone, events, printed, returned, epoch_means,
                   epoch, remaining, pos, running_loss,
                   running_corrects, epoch_loss, epoch_acc, best_metric,
                   loss_over_time, params, training, checkpoint, saves,
                   val_accs, batch_log, n_match, n_seen, passes, fetches,
                   last_fetch>>

\* Mutant: the accumulators are set to 0 once per epoch, before the phases
BeginPhase3DResetPerEpoch ==
    /\ nb = "3D" /\ pc = "phase"
    /\ training' = (phase = "train")
    /\ running_loss' = IF phase = "train" THEN 0 ELSE running_loss
    /\ running_corrects' = IF phase = "train" THEN 0 ELSE running_corrects
    /\ remaining' = BagOfSeq(data[phase])
    /\ pos' = 0
    /\ batch_log' = <<>>
    /\ n_match' = 0
    /\ n_seen' = 0
    /\ pc' = "batch"
    /\ UNCHANGED <<args, standalone, events, printed, returned, epoch_means,
                   epoch, phase, epoch_loss, epoch_acc, best_metric,
                   loss_over_time, params, checkpoint, saves, val_accs, passes,
                   fetches, last_fetch>>

BeginPhase3D ==
    /\ nb = "3D" /\ pc = "phase"
    /\ training' = (phase = "train")
    /\ running_loss' = 0
    /\ running_corrects' = 0
    /\ remaining' = BagOfSeq(data[phase])
    /\ pos' = 0
    /\ batch_log' = <<>>
    /\ n_match' = 0
    /\ n_seen' = 0
    /\ pc' = "batch"
    /\ UNCHANGED <<args, standalone, events, printed, returned, epoch_means,
                   epoch, phase, epoch_loss, epoch_acc, best_metric,
                   loss_over_time, params, checkpoint, saves, val_accs, passes,
                   fetches, last_fetch>>

Batch3D ==
    /\ nb = "3D" /\ pc = "batch" /\ remaining # EmptyBag
    /\ \E rows \in NextBatches :
         LET f == Fetch(rows) IN
         /\ fetches' = fetches + 1
         /\ last_fetch' = [rows |-> rows, error |-> f.error, labels |-> f.labels]
         /\ IF f.error # "none"
            THEN /\ pc' = "aborted"
                 /\ UNCHANGED <<remaining, pos, running_loss, running_corrects,
                                params, batch_log, n_match, n_seen, events>>
            ELSE \E preds \in Predictions(Len(rows)), loss \in Losses :
                 /\ events' = Append(events,
                                [kind |-> "forward", epoch |-> epoch, phase |-> phase,
                                 params |-> params, grad |-> GradEnabled(phase)])
                 /\ params' = IF TakesStep(phase) THEN params + 1 ELSE params
                 /\ running_loss' = AccumulateLoss3D(running_loss, loss, Len(rows))
                 /\ running_corrects' = running_corrects + Corrects(preds, f.labels)
                 /\ remaining' = remaining (-) BagOfSeq(rows)
                 /\ pos' = pos + Len(rows)
                 /\ batch_log' = Append(batch_log, <<loss, Len(rows)>>)
                 /\ n_match' = n_match + Matches(preds, f.labels)
                 /\ n_seen' = n_seen + Len(rows)
                 /\ pc' = "batch"
    /\ UNCHANGED <<args, standalone, printed, returned, epoch_means,
                   epoch, phase, epoch_loss, epoch_acc, best_metric,
                   loss_over_time, training, checkpoint, saves, val_accs, passes>>

EndPhase3D ==
    /\ nb = "3D" /\ pc = "batch" /\ remaining = EmptyBag
    /\ epoch_loss' = EpochLoss(running_loss, dataset_sizes[phase])
    /\ epoch_acc' = EpochAcc(running_corrects, dataset_sizes[phase])
    /\ passes' = Append(passes, <<epoch, phase, n_seen>>)
    /\ IF Decides(phase)
       THEN /\ events' = Append(events,
                            [kind |-> "decision", epoch |-> epoch, phase |-> phase,
                             params |-> params, grad |-> TRUE])
            /\ IF IsBest(epoch_acc', best_metric)
               THEN /\ best_metric' = NewBest(epoch_acc', best_metric)
                    /\ checkpoint' = StateDict(params)
                    /\ saves' = Append(saves, epoch)
               ELSE UNCHANGED <<best_metric, checkpoint, saves>>
       ELSE UNCHANGED <<best_metric, checkpoint, saves, events>>
    /\ IF phase = "val"
       THEN /\ val_accs' = Append(val_accs, epoch_acc')
            /\ epoch' = epoch + 1
            /\ pc' = "epoch"
            /\ UNCHANGED phase
       ELSE /\ phase' = "val"
            /\ pc' = "phase"
            /\ UNCHANGED <<val_accs, epoch>>
    /\ UNCHANGED <<args, standalone, printed, returned, epoch_means,
                   remaining, pos, running_loss, running_corrects,
                   loss_over_time, params, training, batch_log, n_match, n_seen,
                   fetches, last_fetch>>

Return3D ==
    /\ nb = "3D" /\ pc = "epoch" /\ ~EpochsLeft(epoch, num_epochs)
    /\ returned' = [kind |-> "None", value |-> <<>>]
    /\ pc' = "done"
    /\ UNCHANGED <<args, standalone, events, printed, epoch_means,
                   epoch, phase, remaining, pos, running_loss,
                   running_corrects, epoch_loss, epoch_acc, best_metric,
                   loss_over_time, params, training, checkpoint, saves,
                   val_accs, batch_log, n_match, n_seen, passes, fetches,
                   last_fetch>>

Next3D == BeginEpoch3D \/ BeginPhase3D \/ Batch3D \/ EndPhase3D \/ Return3D

-----------------------------------------------------------------------------
(* train_model of the 2D notebook *)

BeginEpoch2D ==
    /\ nb = "2D" /\ pc = "epoch" /\ EpochsLeft(epoch, num_epochs)
    /\ running_loss' = 0
    /\ running_corrects' = 0
    /\ remaining' = BagOfSeq(data[phase])
    /\ pos' = 0
    /\ batch_log' = <<>>
    /\ n_match' = 0
    /\ n_seen' = 0
    /\ pc' = "batch"
    /\ UNCHANGED <<args, standalone, events, printed, returned, epoch_means,
                   epoch, phase, epoch_loss, epoch_acc, best_metric,
                   loss_over_time, params, training, checkpoint, saves,
                   val_accs, passes, fetches, last_fetch>>

Batch2D ==
    /\ nb = "2D" /\ pc = "batch" /\ remaining # EmptyBag
    /\ \E rows \in NextBatches :
         LET f == Fetch(rows) IN
         /\ fetches' = fetches + 1
         /\ last_fetch' = [rows |-> rows, error |-> f.error, labels |-> f.labels]
         /\ IF f.error # "none"
            THEN /\ pc' = "aborted"
                 /\ UNCHANGED <<remaining, pos, running_loss, running_corrects,
                                params, batch_log, n_match, n_seen, events>>
            ELSE \E preds \in Predictions(Len(rows)), loss \in Losses :
                 /\ events' = Append(events,
                                [kind |-> "forward", epoch |-> epoch, phase |-> phase,
                                 params |-> params, grad |-> TRUE])
                 /\ params' = params + 1
                 /\ running_loss' = AccumulateLoss2D(running_loss, loss, Len(rows))
                 /\ running_corrects' = running_corrects + Corrects(preds, f.labels)
                 /\ remaining' = remaining (-) BagOfSeq(rows)
                 /\ pos' = pos + Len(rows)
                 /\ batch_log' = Append(batch_log, <<loss, Len(rows)>>)
                 /\ n_match' = n_match + Matches(preds, f.labels)
                 /\ n_seen' = n_seen + Len(rows)
                 /\ pc' = "batch"
    /\ UNCHANGED <<args, standalone, printed, returned, epoch_means,
                   epoch, phase, epoch_loss, epoch_acc, best_metric,
                   loss_over_time, training, checkpoint, saves, val_accs, passes>>

EndEpoch2D ==
    /\ nb = "2D" /\ pc = "batch" /\ remaining = EmptyBag
    /\ epoch_loss' = EpochLoss(running_loss, dataset_sizes["train"])
    /\ epoch_acc' = EpochAcc(running_corrects, dataset_sizes["train"])
    /\ printed' = Append(printed, epoch_loss')
    /\ loss_over_time' = HistoryAppend(loss_over_time, epoch_loss')
    /\ passes' = Append(passes, <<epoch, phase, n_seen>>)
    /\ epoch_means' = Append(epoch_means, Div(WeightedSum(batch_log), n_seen))
    /\ epoch' = epoch + 1
    /\ pc' = "epoch"
    /\ UNCHANGED <<args, standalone, events, returned,
                   phase, remaining, pos, running_loss,
                   running_corrects, best_metric, params, training, checkpoint,
                   saves, val_accs, batch_log, n_match, n_seen, fetches,
                   last_fetch>>

Return2D ==
    /\ nb = "2D" /\ pc = "epoch" /\ ~EpochsLeft(epoch, num_epochs)
    /\ returned' = [kind |-> "list", value |-> loss_over_time]
    /\ pc' = "done"
    /\ UNCHANGED <<args, standalone, events, printed, epoch_means,
                   epoch, phase, remaining, pos, running_loss,
                   running_corrects, epoch_loss, epoch_acc, best_metric,
                   loss_over_time, params, training, checkpoint, saves,
                   val_accs, batch_log, n_match, n_seen, passes, fetches,
                   last_fetch>>

Next2D == BeginEpoch2D \/ Batch2D \/ EndEpoch2D \/ Return2D

-----------------------------------------------------------------------------
(* Initial states *)

\* Rows of labels.csv whose file is readable and whose class is mapped
CleanRows2D == [file : {"ok"}, cls : Range(classes), h : {2}, w : {2}]

\* Samples of an ImageDataset whose file is readable
CleanRows3D == [file : {"ok"}, cls : Classes]

SeqsUpTo(S, n) == UNION {[1..k -> S] : k \in 1..n}

\* No worker process runs
NoWorkers ==
    /\ index_queues = <<>>
    /\ working = <<>>
    /\ data_queue = <<>>
    /\ task_info = {}
    /\ send_idx = 0
    /\ rcvd_idx = 0

\* The state when train_model is entered, the arguments given: loaders
\* over the datasets d, and the sizes the globals len(train_dataset) /
\* dataset_sizes hold
EntryWith(notebook, d, sizes, b, n, m, c) ==
    /\ nb = notebook
    /\ data = d
    /\ dataset_sizes = sizes
    /\ batch_size = b
    /\ num_epochs = n
    /\ model = m
    /\ criterion = c
    /\ pc = "epoch"
    /\ epoch = 0
    /\ phase = "train"
    /\ remaining = EmptyBag
    /\ pos = 0
    /\ running_loss = 0
    /\ running_corrects = 0
    /\ epoch_loss = NoValue
    /\ epoch_acc = NoValue
    /\ best_metric = InitialBestMetric
    /\ loss_over_time = <<>>
    /\ params = 0
    /\ training = TRUE
    /\ checkpoint = NoValue
    /\ saves = <<>>
    /\ val_accs = <<>>
    /\ batch_log = <<>>
    /\ n_match = 0
    /\ n_seen = 0
    /\ passes = <<>>
    /\ fetches = 0
    /\ last_fetch = [rows |-> <<>>, error |-> "none", labels |-> <<>>]
    /\ classmapper = class_to_idx
    /\ returned = [kind |-> "unset", value |-> <<>>]
    /\ epoch_means = <<>>
    /\ printed = <<>>
    /\ events = <<>>
    /\ items = {}
    /\ loader = NoValue
    /\ order = <<>>
    /\ cursor = 0
    /\ yielded = <<>>
    /\ pass_no = 0
    /\ prev_order = <<>>
    /\ NoWorkers

\* train_model entered as the notebooks call it: the loaders are those of
\* the datasets the globals measure
Entry(notebook, d, b, n, m, c) ==
    EntryWith(notebook, d, [ph \in DOMAIN d |-> Len(d[ph])], b, n, m, c)

\* The behaviours drawn for the model and criterion arguments: every
\* prediction with a fixed loss, or every loss with a constant prediction
Arguments == {<<"any", "const">>, <<"const0", "any">>, <<"const1", "any">>}

Init2D ==
    \E rows \in SeqsUpTo(CleanRows2D, MaxN), b \in 1..MaxB, n \in 0..MaxEpochs,
       a \in Arguments :
        Entry("2D", [train |-> rows], b, n, a[1], a[2])

Init3D ==
    \E tr \in SeqsUpTo(CleanRows3D, MaxN), va \in SeqsUpTo(CleanRows3D, MaxN),
       b \in 1..MaxB, n \in 0..MaxEpochs, a \in Arguments :
        Entry("3D", [train |-> tr, val |-> va], b, n, a[1], a[2])

\* A toy dataset of 10 samples, 5 per class, batch size 2, 1 epoch, and a
\* model whose prediction is one constant class
ToyLabels == <<0, 0, 0, 0, 0, 1, 1, 1, 1, 1>>

ToyRows2D ==
    [i \in DOMAIN ToyLabels |->
        [file |-> "ok", cls |-> idx_to_class[ToyLabels[i]], h |-> 2, w |-> 2]]

ToyRows3D == [i \in DOMAIN ToyLabels |-> [file |-> "ok", cls |-> ToyLabels[i]]]

InitToy ==
    \E m \in {"const0", "const1"} :
        \/ Entry("2D", [train |-> ToyRows2D], 2, 1, m, "const")
        \/ Entry("3D", [train |-> ToyRows3D, val |-> ToyRows3D], 2, 1, m, "const")

Init == Init2D \/ Init3D \/ InitToy

Next == Next2D \/ Next3D

Spec == Init /\ [][Next]_vars

-----------------------------------------------------------------------------
(* The 3D notebook as it is run: the first 10 images train, the last 10     *)
(* validate, batch size 2                                                   *)

Rows3D(first, count) ==
    [i \in 1..count |-> [file |-> "ok", cls |-> labels3D[first + i]]]

InitCkpt ==
    \E n \in 1..CkptEpochs :
        Entry("3D",
              [train |-> Rows3D(0, TrainCount3D),
               val   |-> Rows3D(Len(labels3D) - ValCount3D, ValCount3D)],
              BatchSize3D, n, "any", "const")

SpecCkpt == InitCkpt /\ [][Next3D]_vars

-----------------------------------------------------------------------------
(* The 3D train_model over small train and val sets of every size, with     *)
(* every prediction of the model                                            *)

InitPhases ==
    \E nt \in 1..MaxPhaseN, nv \in 1..MaxPhaseN, b \in 1..MaxB, n \in 1..CkptEpochs :
        Entry("3D",
              [train |-> [i \in 1..nt |-> [file |-> "ok", cls |-> 0]],
               val   |-> [i \in 1..nv |-> [file |-> "ok", cls |-> 0]]],
              b, n, "any", "const")

SpecPhases == InitPhases /\ [][Next3D]_vars

-----------------------------------------------------------------------------
(* train_model called with loaders of other datasets than the ones the      *)
(* globals len(train_dataset) / dataset_sizes were taken from               *)

InitArg2D ==
    \E nt \in 1..MaxB, size \in 1..MaxN, b \in 1..MaxB, n \in 0..MaxEpochs :
        EntryWith("2D",
                  [train |-> [i \in 1..nt |-> [file |-> "ok", cls |-> classes[1],
                                               h |-> 2, w |-> 2]]],
                  [train |-> size], b, n, "any", "const")

InitArg3D ==
    \E nt \in 1..MaxB, nv \in 1..MaxB, st \in 1..MaxN, sv \in 1..MaxN,
       b \in 1..MaxB, n \in 0..MaxEpochs :
        EntryWith("3D",
                  [train |-> [i \in 1..nt |-> [file |-> "ok", cls |-> 0]],
                   val   |-> [i \in 1..nv |-> [file |-> "ok", cls |-> 0]]],
                  [train |-> st, val |-> sv], b, n, "any", "const")

InitArg == InitArg2D \/ InitArg3D

SpecArg == InitArg /\ [][Next]_vars

-----------------------------------------------------------------------------
(* Runs over datasets with unreadable files, unmapped classes and images    *)
(* of different proportions                                                 *)

AllRows2D == [file : Files, cls : Range(classes) \cup {"Other"}, h : {2}, w : {2, 4}]

AllRows3D == [file : Files, cls : Classes]

InitErr2D ==
    \E rows \in SeqsUpTo(AllRows2D, MaxN), b \in 1..MaxB, n \in 0..MaxEpochs :
        Entry("2D", [train |-> rows], b, n, "const0", "const")

InitErr3D ==
    \E tr \in SeqsUpTo(AllRows3D, ErrN), va \in SeqsUpTo(AllRows3D, ErrN),
       b \in 1..MaxB, n \in 0..MaxEpochs :
        Entry("3D", [train |-> tr, val |-> va], b, n, "const0", "const")

InitErr == InitErr2D \/ InitErr3D

\* train_model runs on one thread: a step that can be taken is taken
SpecErr == InitErr /\ [][Next]_vars /\ WF_vars(Next)

-----------------------------------------------------------------------------
(* Properties of the checkpoint of the 3D train_model *)

\* The run of 3 epochs whose val accuracies were 0.5, 0.7, 0.6 has returned
Run_05_07_06 ==
    /\ nb = "3D" /\ pc = "done" /\ num_epochs = 3 /\ Len(val_accs) = 3
    /\ RatEq(val_accs[1], Div(5, 10))
    /\ RatEq(val_accs[2], Div(7, 10))
    /\ RatEq(val_accs[3], Div(6, 10))

\* C1, as stated: in a run of 3 epochs with val accuracies 0.5, 0.7, 0.6
\* exactly one checkpoint write occurs, after the val phase of the second
\* epoch (epoch index 1).
C1_OneWriteAfterEpoch2 == Run_05_07_06 => saves = <<1>>

\* C1, amended: in a run of 3 epochs with val accuracies 0.5, 0.7, 0.6
\* exactly two checkpoint writes occur, after the val phases of the first
\* and of the second epoch (epoch indices 0 and 1), and none after the third;
\* the file then holds the parameters of the end of the second epoch.
C1_TwoWrites ==
    Run_05_07_06 =>
        /\ saves = <<0, 1>>
        /\ checkpoint = <<2 * (TrainCount3D \div BatchSize3D)>>
        /\ RatEq(best_metric, Div(7, 10))

C1_Witness == Run_05_07_06 /\ saves = <<0, 1>>

\* The val phase of an epoch ends in this step
ValPhaseEnds == nb = "3D" /\ phase = "val" /\ pc = "batch" /\ pc' = "epoch"

\* C7: a checkpoint write happens at the end of an epoch's val phase if and
\* only if that epoch's val accuracy (matches / samples of the pass) is
\* strictly greater than best_metric; if it is not, nothing is written and
\* best_metric stays; if it is, best_metric becomes that accuracy in the same
\* step as the write; no other step writes or changes best_metric.
C7_WriteIffStrictlyBetter ==
    [][LET acc == Div(n_match, n_seen) IN
       /\ ValPhaseEnds /\ RatGt(acc, best_metric) =>
            /\ saves' = Append(saves, epoch)
            /\ checkpoint' = <<params>>
            /\ RatEq(best_metric', acc)
       /\ ValPhaseEnds /\ ~RatGt(acc, best_metric) =>
            UNCHANGED <<saves, checkpoint, best_metric>>
       /\ ~ValPhaseEnds => UNCHANGED <<saves, checkpoint, best_metric>>]_vars

\* An epoch that did not improve on an earlier one, and an epoch that tied it
C7_Witness ==
    /\ nb = "3D" /\ Len(val_accs) = 3 /\ saves = <<0, 2>>
    /\ RatEq(val_accs[2], val_accs[1])
    /\ RatGt(val_accs[3], val_accs[1])

\* The greatest of a non-empty sequence of rationals
RatMax(accs) ==
    CHOOSE x \in Range(accs) : \A y \in Range(accs) : ~RatGt(y, x)

\* C14: in the 3D train_model best_metric never decreases during a run, and
\* after the val phase of each epoch it equals the maximum val accuracy over
\* all epochs completed so far.
C14_BestMetricIsRunningMaximum ==
    /\ [](nb = "3D" /\ val_accs # <<>> => RatEq(best_metric, RatMax(val_accs)))
    /\ [](nb = "3D" /\ val_accs = <<>> => RatEq(best_metric, Div(0 - 1, 1)))
    /\ [][~RatGt(best_metric, best_metric')]_vars

\* Three epochs completed, the second with the best val accuracy; the third,
\* a worse one, left best_metric as it was
C14_Witness ==
    /\ nb = "3D" /\ Len(val_accs) = 3
    /\ RatGt(val_accs[2], val_accs[1]) /\ RatGt(val_accs[2], val_accs[3])
    /\ best_metric = val_accs[2]

-----------------------------------------------------------------------------
(* Properties of the phases of the 3D train_model *)

\* C16: in the 3D train_model the model parameters are changed only by the
\* update step of a batch of the train phase: no step of a val phase (a
\* batch, or the checkpoint decision after the last one) changes them, and
\* no step between passes does; the forward pass of a batch runs with
\* gradient tracking enabled exactly when the phase is train.
C16_ParamsChangeOnlyInTrain ==
    /\ [][/\ params' # params =>
               /\ phase = "train" /\ pc = "batch" /\ fetches' = fetches + 1
               /\ last_fetch'.error = "none"
               /\ params' = params + 1
          /\ phase = "val" => params' = params
          /\ (phase = "train" /\ pc = "batch" /\ fetches' = fetches + 1
                 /\ last_fetch'.error = "none") => params' = params + 1]_vars
    /\ [](\A i \in DOMAIN events :
            events[i].kind = "forward" =>
                (events[i].grad <=> events[i].phase = "train"))

\* An epoch of two train batches, two val batches and the decision: the
\* val batches and the decision saw the parameters the train phase left
C16_Witness ==
    /\ nb = "3D" /\ pc = "epoch" /\ epoch = 1 /\ params = 2 /\ Len(events) = 5
    /\ events[1].phase = "train" /\ events[1].grad /\ events[1].params = 0
    /\ events[3].phase = "val" /\ ~events[3].grad /\ events[3].params = 2
    /\ events[4].phase = "val" /\ events[4].params = 2
    /\ events[5].kind = "decision" /\ events[5].params = 2

\* The number of batches of one val pass
ValBatches == CeilDiv(Len(data["val"]), batch_size)

\* The number of batches of one train pass
TrainBatches == CeilDiv(Len(data["train"]), batch_size)

\* What the i-th forward pass or decision of a run is, if every epoch is:
\* all train batches, each on the parameters the one before left; then all
\* val batches, each on the parameters the train phase left; then the
\* checkpoint decision, on the same parameters
ExpectedEvent(i) ==
    LET per == TrainBatches + ValBatches + 1
        e == (i - 1) \div per
        r == (i - 1) % per
    IN  IF r < TrainBatches
        THEN [kind |-> "forward", epoch |-> e, phase |-> "train",
              params |-> e * TrainBatches + r, grad |-> TRUE]
        ELSE IF r < TrainBatches + ValBatches
        THEN [kind |-> "forward", epoch |-> e, phase |-> "val",
              params |-> (e + 1) * TrainBatches, grad |-> FALSE]
        ELSE [kind |-> "decision", epoch |-> e, phase |-> "val",
              params |-> (e + 1) * TrainBatches, grad |-> TRUE]

\* C20: in the 3D train_model, within every epoch all train batches are
\* processed before any val batch, the val phase of epoch k evaluates
\* exactly the parameters the train phase of epoch k left, and a checkpoint
\* decision is taken only after a val phase has processed all its batches:
\* never during or after a train phase, never in the middle of a pass.
C20_TrainThenValThenDecision ==
    /\ [](nb = "3D" => \A i \in DOMAIN events : events[i] = ExpectedEvent(i))
    /\ [](nb = "3D" /\ pc = "done" =>
            Len(events) = num_epochs * (TrainBatches + ValBatches + 1))
    /\ [][(best_metric' # best_metric \/ checkpoint' # checkpoint
             \/ saves' # saves) =>
              /\ phase = "val" /\ pc = "batch" /\ n_seen = Len(data["val"])
              /\ Len(batch_log) = ValBatches
              /\ events' = Append(events, [kind |-> "decision", epoch |-> epoch,
                                           phase |-> "val", params |-> params,
                                           grad |-> TRUE])]_vars

\* A run of two epochs, each of two train batches, a full and a short val
\* batch and the decision, has returned
C20_Witness ==
    /\ nb = "3D" /\ pc = "done" /\ num_epochs = 2 /\ batch_size = 2
    /\ Len(data["train"]) = 3 /\ Len(data["val"]) = 3
    /\ Len(events) = 10
    /\ events[9].phase = "val" /\ events[9].kind = "forward" /\ events[9].params = 4
    /\ events[10].kind = "decision" /\ events[10].params = 4

\* The number of optimizer steps of one train pass
StepsPerEpoch == CeilDiv(Len(data["train"]), batch_size)

\* The first epoch (from 1) whose val accuracy is the greatest of the run
EarliestBest ==
    CHOOSE k \in DOMAIN val_accs :
        /\ RatEq(val_accs[k], RatMax(val_accs))
        /\ \A j \in 1..(k - 1) : RatGt(val_accs[k], val_accs[j])

\* C18: after a completed run of n >= 1 epochs of the 3D train_model the
\* last checkpoint written holds the parameters as they were at the end of
\* the earliest epoch that attained the greatest val accuracy of the run; a
\* later epoch that only ties the best accuracy does not overwrite it (every
\* write is for an accuracy strictly above those of all epochs before), and
\* the first epoch always writes.
C18_CheckpointOfEarliestBestEpoch ==
    nb = "3D" /\ pc = "done" /\ num_epochs >= 1 =>
        /\ Len(val_accs) = num_epochs
        /\ checkpoint = <<EarliestBest * StepsPerEpoch>>
        /\ saves # <<>> /\ saves[1] = 0
        /\ saves[Len(saves)] = EarliestBest - 1
        /\ \A i \in DOMAIN saves : \A j \in 1..saves[i] :
              RatGt(val_accs[saves[i] + 1], val_accs[j])
        /\ \A k \in DOMAIN val_accs :
              (\A j \in 1..(k - 1) : RatGt(val_accs[k], val_accs[j]))
                  => \E i \in DOMAIN saves : saves[i] = k - 1

\* A run of three epochs of two updates each: the second epoch improved on
\* the first, the third tied the second and wrote nothing
C18_Witness ==
    /\ nb = "3D" /\ pc = "done" /\ num_epochs = 3 /\ StepsPerEpoch = 2
    /\ RatGt(val_accs[2], val_accs[1]) /\ RatEq(val_accs[3], val_accs[2])
    /\ saves = <<0, 1>> /\ checkpoint = <<4>> /\ params = 6

-----------------------------------------------------------------------------
(* Properties of the epoch loss and accuracy *)

\* The pass whose epoch_loss and epoch_acc were computed last, its log intact
Reported3D ==
    /\ nb = "3D"
    /\ \/ pc = "phase" /\ phase = "val"
       \/ pc \in {"epoch", "done"} /\ epoch > 0

ReportedPhase == IF pc = "phase" THEN "train" ELSE "val"

Reported2D == nb = "2D" /\ pc \in {"epoch", "done"} /\ epoch > 0

\* C2: in the 3D train_model the epoch_loss of every epoch and phase equals
\* the sum over the phase's batches of (batch mean loss * batch size) divided
\* by the phase's dataset size, the batches being those the pass yielded:
\* all of batch_size samples but possibly a shorter last one.
C2_EpochLossIsWeightedMean ==
    Reported3D =>
        /\ RatEq(epoch_loss, Div(WeightedSum(batch_log), dataset_sizes[ReportedPhase]))
        /\ SeqSum([i \in DOMAIN batch_log |-> batch_log[i][2]])
              = dataset_sizes[ReportedPhase]
        /\ \A i \in DOMAIN batch_log :
              i < Len(batch_log) => batch_log[i][2] = batch_size

\* A val pass with a full and a short batch of different losses
C2_Witness ==
    /\ Reported3D /\ ReportedPhase = "val"
    /\ batch_log = <<<<2, 2>>, <<1, 1>>>>
    /\ epoch_loss = Div(5, 3)

\* C3, as stated: in the 2D train_model every value appended to
\* loss_over_time equals sum(batch_loss * batch_size) / dataset size of that
\* epoch's batches (the loss of a batch enters running_loss exactly once).
C3_LossOverTimeIsWeightedMean ==
    Reported2D =>
        RatEq(loss_over_time[epoch],
              Div(WeightedSum(batch_log), dataset_sizes["train"]))

\* C15: in both train_model loops running_loss and running_corrects are 0
\* when the first batch of every epoch (in the 3D loop: of every phase) is
\* processed, so that throughout a pass they hold what the batches of that
\* pass alone added (the 2D loop adds every loss twice), and nothing of an
\* earlier epoch or of the other phase.
C15_AccumulatorsStartAtZero ==
    pc = "batch" =>
        /\ pos = 0 => running_loss = 0 /\ running_corrects = 0
        /\ running_corrects = n_match
        /\ running_loss =
              IF nb = "3D" THEN WeightedSum(batch_log)
              ELSE WeightedSum(batch_log)
                     + SeqSum([i \in DOMAIN batch_log |-> batch_log[i][1]])

\* The first batch of the val phase of the second epoch is about to be
\* processed, after passes that left a loss and correct predictions
C15_Witness ==
    /\ nb = "3D" /\ pc = "batch" /\ pos = 0 /\ epoch = 1 /\ phase = "val"
    /\ running_loss = 0 /\ running_corrects = 0
    /\ epoch_loss # NoValue /\ epoch_loss[1] > 0
    /\ epoch_acc[1] > 0 /\ Len(passes) = 3

\* C19, as stated: for any loader passed to train_model the divisor of the
\* epoch loss and of the epoch accuracy is the number of samples the loader
\* yielded in that pass, so the accuracy is correct / yielded and lies in
\* [0, 1], and (3D; the 2D sum is the subject of C3) the loss is the
\* per-sample mean over the samples yielded.
C19_DivisorIsSamplesYielded ==
    Reported2D \/ Reported3D =>
        LET ph == IF nb = "2D" THEN "train" ELSE ReportedPhase IN
        /\ dataset_sizes[ph] = n_seen
        /\ RatEq(epoch_acc, Div(n_match, n_seen))
        /\ ~RatGt(epoch_acc, Div(1, 1)) /\ ~RatGt(Div(0, 1), epoch_acc)
        /\ nb = "3D" => RatEq(epoch_loss, Div(WeightedSum(batch_log), n_seen))

\* The labels of the samples of the dataset behind a loader
LabelsOf(ph) == [i \in DOMAIN data[ph] |-> GetItem(data[ph][i]).label]

ConstantClass == IF model = "const0" THEN 0 ELSE 1

\* C4: in both train_model loops the epoch accuracy of an epoch (and phase)
\* equals (number of samples of the pass whose predicted class equals the
\* true label) / (total number of samples); for a model that outputs one
\* constant class it equals the fraction of samples whose label is that class.
C4_AccuracyIsCorrectOverTotal ==
    Reported2D \/ Reported3D =>
        LET ph == IF nb = "2D" THEN "train" ELSE ReportedPhase IN
        /\ n_seen = Len(data[ph])
        /\ RatEq(epoch_acc, Div(n_match, n_seen))
        /\ model \in {"const0", "const1"} =>
              RatEq(epoch_acc,
                    Div(Cardinality({i \in DOMAIN data[ph] : LabelsOf(ph)[i] = ConstantClass}),
                        Len(data[ph])))

\* The toy run: 10 samples, 5 per class, batch size 2, 1 epoch, constant model
C4_Witness ==
    /\ pc = "done" /\ num_epochs = 1 /\ batch_size = 2
    /\ model \in {"const0", "const1"}
    /\ Len(data["train"]) = 10
    /\ Cardinality({i \in 1..10 : LabelsOf("train")[i] = ConstantClass}) = 5
    /\ Len(batch_log) = 5
    /\ RatEq(epoch_acc, Div(1, 2))

-----------------------------------------------------------------------------
(* A DataLoader on its own: the passes of train_loader / val_loader over    *)
(* the indices 0 .. n-1 of its dataset                                      *)

\* The state of train_model, unused while a dataset or loader is used alone
Idle(notebook, d) ==
    /\ nb = notebook
    /\ data = d
    /\ dataset_sizes = [ph \in DOMAIN d |-> Len(d[ph])]
    /\ batch_size = 0
    /\ num_epochs = 0
    /\ model = "any"
    /\ criterion = "any"
    /\ epoch = 0
    /\ phase = "train"
    /\ remaining = EmptyBag
    /\ pos = 0
    /\ running_loss = 0
    /\ running_corrects = 0
    /\ epoch_loss = NoValue
    /\ epoch_acc = NoValue
    /\ best_metric = InitialBestMetric
    /\ loss_over_time = <<>>
    /\ params = 0
    /\ training = TRUE
    /\ checkpoint = NoValue
    /\ saves = <<>>
    /\ val_accs = <<>>
    /\ batch_log = <<>>
    /\ n_match = 0
    /\ n_seen = 0
    /\ passes = <<>>
    /\ fetches = 0
    /\ last_fetch = [rows |-> <<>>, error |-> "none", labels |-> <<>>]
    /\ classmapper = class_to_idx
    /\ returned = [kind |-> "unset", value |-> <<>>]
    /\ epoch_means = <<>>
    /\ printed = <<>>
    /\ events = <<>>

\* The state of a run of train_model
runVars == <<epoch, phase, remaining, pos, running_loss,
             running_corrects, epoch_loss, epoch_acc, best_metric,
             loss_over_time, params, training, checkpoint, saves, val_accs,
             batch_log, n_match, n_seen, passes, fetches, last_fetch,
             returned, epoch_means, printed, events>>

trainVars == <<args, runVars>>

\* Mutant: the shuffle flag is ignored, every loader shuffles
SamplerOrdersShuffled(n, shuffle) ==
    {o \in [1..n -> 0..(n - 1)] : \A i, j \in 1..n : i # j => o[i] # o[j]}

\* The orders a sampler may produce over n indices: RandomSampler draws a
\* permutation when the pass starts, SequentialSampler counts up
SamplerOrders(n, shuffle) ==
    IF shuffle
    THEN {o \in [1..n -> 0..(n - 1)] : \A i, j \in 1..n : i # j => o[i] # o[j]}
    ELSE {[i \in 1..n |-> i - 1]}

\* Mutant: drop_last=True, a short last batch is not yielded
HasFullBatch(consumed, n, b) == consumed + b <= n

\* BatchSampler with drop_last=False: whether a batch is left to yield
HasBatch(consumed, n, b) == consumed < n

\* BatchSampler: the next batch, batch_size indices or those that are left
BatchOf(o, consumed, b) == SubSeq(o, consumed + 1, Min(consumed + b, Len(o)))

\* iter(loader)
StartPass ==
    /\ pc = "loader" /\ pass_no < MaxPasses
    /\ order' \in SamplerOrders(loader.n, loader.shuffle)
    /\ prev_order' = order
    /\ cursor' = 0
    /\ yielded' = <<>>
    /\ pc' = "iterating"
    /\ UNCHANGED <<trainVars, workerVars, items, loader, pass_no>>

\* next(iterator), a batch is left
NextBatch ==
    /\ pc = "iterating" /\ HasBatch(cursor, loader.n, loader.batch_size)
    /\ LET batch == BatchOf(order, cursor, loader.batch_size) IN
       /\ yielded' = Append(yielded, batch)
       /\ cursor' = cursor + Len(batch)
    /\ UNCHANGED <<trainVars, workerVars, items, loader, order, pass_no, prev_order, pc>>

\* next(iterator), none is left: StopIteration ends the for loop
EndPass ==
    /\ pc = "iterating" /\ ~HasBatch(cursor, loader.n, loader.batch_size)
    /\ pass_no' = pass_no + 1
    /\ pc' = "loader"
    /\ UNCHANGED <<trainVars, workerVars, items, loader, order, cursor, yielded,
                   prev_order>>

InitLoader ==
    /\ Idle("3D", [train |-> <<>>, val |-> <<>>])
    /\ pc = "loader"
    /\ items = {}
    /\ loader \in [n : 1..MaxLoaderN, batch_size : 1..MaxLoaderB, shuffle : BOOLEAN]
    /\ order = <<>>
    /\ cursor = 0
    /\ yielded = <<>>
    /\ pass_no = 0
    /\ prev_order = <<>>
    /\ NoWorkers

NextLoader == StartPass \/ NextBatch \/ EndPass

SpecLoader == InitLoader /\ [][NextLoader]_vars

RECURSIVE Flatten(_)
Flatten(ss) == IF ss = <<>> THEN <<>> ELSE Head(ss) \o Flatten(Tail(ss))


\* C5: one full pass of a loader over a dataset of size N with batch size B
\* yields every index of [0, N) exactly once, in ceil(N/B) batches, each of
\* size exactly B but the last, which has N - B*(ceil(N/B)-1); after a pass
\* ended a new one can be started, and it has the same membership.
C5_PassYieldsEveryIndexOnce ==
    LET n == loader.n
        b == loader.batch_size
        flat == Flatten(yielded)
    IN  /\ pc = "loader" /\ pass_no > 0 =>
            /\ Len(flat) = n
            /\ \A x \in 0..(n - 1) : Cardinality({i \in DOMAIN flat : flat[i] = x}) = 1
            /\ Len(yielded) = CeilDiv(n, b)
            /\ \A k \in DOMAIN yielded :
                  Len(yielded[k]) = IF k < Len(yielded) THEN b
                                    ELSE n - b * (CeilDiv(n, b) - 1)
        /\ pc = "loader" /\ pass_no < MaxPasses => ENABLED StartPass
        /\ pc = "iterating" =>
            \A i, j \in DOMAIN flat : i # j => flat[i] # flat[j]

\* A second, shuffled pass over 3 samples ended: a batch of 2 and one of 1
C5_Witness ==
    /\ pc = "loader" /\ pass_no = 2
    /\ loader = [n |-> 3, batch_size |-> 2, shuffle |-> TRUE]
    /\ yielded = <<<<2, 0>>, <<1>>>>

\* The permutations of the indices 0 .. n-1
IndexPermutations(n) ==
    {o \in [1..n -> 0..(n - 1)] : \A i, j \in 1..n : i # j => o[i] # o[j]}

\* C11: with shuffling disabled every pass yields the samples in index
\* order: batch k (from 0) holds exactly the indices k*B .. min((k+1)*B, N)-1
\* ascending, in every pass alike; with shuffling enabled the order of a pass
\* is a permutation of [0, N) chosen when the pass starts, whatever the order
\* of the pass before: every permutation can be the next one.
C11_IndexOrderOrFreshPermutation ==
    LET n == loader.n
        b == loader.batch_size
    IN  /\ pc = "iterating" /\ ~loader.shuffle =>
            \A k \in DOMAIN yielded :
                yielded[k] = [i \in 1..(Min(k * b, n) - (k - 1) * b) |->
                                (k - 1) * b + i - 1]
        /\ pc = "iterating" /\ loader.shuffle =>
            /\ order \in IndexPermutations(n)
            /\ Flatten(yielded) = SubSeq(order, 1, cursor)
        /\ pc = "loader" /\ pass_no < MaxPasses /\ loader.shuffle =>
            \A o \in IndexPermutations(n) : ENABLED (StartPass /\ order' = o)
        /\ pc = "loader" /\ pass_no > 0 /\ ~loader.shuffle =>
            order = [i \in 1..n |-> i - 1] /\ Flatten(yielded) = order

\* The second pass of a shuffling loader over 3 samples runs in another
\* order than the first did
C11_Witness ==
    /\ pc = "iterating" /\ pass_no = 1 /\ loader.shuffle /\ loader.n = 3
    /\ prev_order = <<0, 1, 2>> /\ order = <<2, 0, 1>>
    /\ yielded = <<<<2, 0>>>>

-----------------------------------------------------------------------------
(* A DataLoader with worker processes (num_workers=2): the main process     *)
(* sends numbered batch requests to the workers in turn, each worker fetches *)
(* its requests one by one and puts the numbered results on one shared       *)
(* queue, and the main process hands them to the loop                        *)

\* The worker the k-th request (from 0) of a pass goes to: each in turn
WorkerOf(k) == (k % NumWorkers) + 1

\* The requests the main process may have outstanding
MaxOutstanding == PrefetchFactor * NumWorkers

\* _try_put_index, up to count times: the next batches of the sampler are
\* sent, numbered, to the workers in turn, while the sampler has one
RECURSIVE PutIndex(_, _, _, _)
PutIndex(queues, sent, consumed, count) ==
    IF count = 0 \/ ~HasBatch(consumed, loader.n, loader.batch_size)
    THEN [queues |-> queues, sent |-> sent, consumed |-> consumed]
    ELSE LET batch == BatchOf(order, consumed, loader.batch_size)
             w == WorkerOf(sent)
         IN  PutIndex([queues EXCEPT ![w] = Append(@, <<sent, batch>>)],
                      sent + 1, consumed + Len(batch), count - 1)

\* Mutant: a result is handed to the loop as it arrives
InTurnAny(idx, rcvd) == TRUE

\* _next_data: a result is handed to the loop when its number is the next
InTurn(idx, rcvd) == idx = rcvd

\* iter(loader): the sampler draws its order and the first requests are sent
StartPassWorkers ==
    /\ pc = "mp_loader" /\ pass_no < MaxPasses
    /\ \E o \in SamplerOrders(loader.n, loader.shuffle) :
         LET empty == [w \in 1..NumWorkers |-> <<>>]
             batches == [k \in 1..MaxOutstanding |->
                           BatchOf(o, (k - 1) * loader.batch_size, loader.batch_size)]
             count == Min(MaxOutstanding, CeilDiv(loader.n, loader.batch_size))
         IN  /\ order' = o
             /\ index_queues' =
                    [w \in 1..NumWorkers |->
                        SelectSeq([k \in 1..count |-> <<k - 1, batches[k]>>],
                                  LAMBDA r : WorkerOf(r[1]) = w)]
             /\ send_idx' = count
             /\ cursor' = Min(count * loader.batch_size, loader.n)
    /\ working' = [w \in 1..NumWorkers |-> <<>>]
    /\ data_queue' = <<>>
    /\ task_info' = {}
    /\ rcvd_idx' = 0
    /\ yielded' = <<>>
    /\ pc' = "mp_iterating"
    /\ UNCHANGED <<trainVars, items, loader, pass_no, prev_order>>

\* A worker takes the next request of its queue
WorkerTake ==
    /\ pc = "mp_iterating"
    /\ \E w \in 1..NumWorkers :
         /\ working[w] = <<>> /\ index_queues[w] # <<>>
         /\ working' = [working EXCEPT ![w] = Head(index_queues[w])]
         /\ index_queues' = [index_queues EXCEPT ![w] = Tail(@)]
    /\ UNCHANGED <<trainVars, items, loader, order, cursor, yielded, pass_no,
                   prev_order, data_queue, task_info, send_idx, rcvd_idx, pc>>

\* A worker has fetched the batch of its request and puts the result
WorkerPut ==
    /\ pc = "mp_iterating"
    /\ \E w \in 1..NumWorkers :
         /\ working[w] # <<>>
         /\ data_queue' = Append(data_queue, working[w])
         /\ working' = [working EXCEPT ![w] = <<>>]
    /\ UNCHANGED <<trainVars, items, loader, order, cursor, yielded, pass_no,
                   prev_order, index_queues, task_info, send_idx, rcvd_idx, pc>>

\* _process_data: the batch goes to the loop and one more request is sent
Deliver(batch) ==
    LET put == PutIndex(index_queues, send_idx, cursor, 1) IN
    /\ yielded' = Append(yielded, batch)
    /\ rcvd_idx' = rcvd_idx + 1
    /\ index_queues' = put.queues
    /\ send_idx' = put.sent
    /\ cursor' = put.consumed

\* next(iterator): the result whose turn it is was received before
DeliverKept ==
    /\ pc = "mp_iterating"
    /\ \E r \in task_info :
         /\ r[1] = rcvd_idx
         /\ task_info' = task_info \ {r}
         /\ Deliver(r[2])
    /\ UNCHANGED <<trainVars, items, loader, order, pass_no, prev_order,
                   working, data_queue, pc>>

\* next(iterator): a result is taken from the shared queue, and handed to
\* the loop or kept until its turn
Receive ==
    /\ pc = "mp_iterating"
    /\ \A r \in task_info : r[1] # rcvd_idx
    /\ data_queue # <<>>
    /\ data_queue' = Tail(data_queue)
    /\ LET r == Head(data_queue) IN
       IF InTurn(r[1], rcvd_idx)
       THEN /\ Deliver(r[2])
            /\ UNCHANGED task_info
       ELSE /\ task_info' = task_info \cup {r}
            /\ UNCHANGED <<yielded, rcvd_idx, index_queues, send_idx, cursor>>
    /\ UNCHANGED <<trainVars, items, loader, order, pass_no, prev_order,
                   working, pc>>

\* next(iterator), every request sent was delivered: StopIteration
EndPassWorkers ==
    /\ pc = "mp_iterating"
    /\ rcvd_idx = send_idx
    /\ pass_no' = pass_no + 1
    /\ pc' = "mp_loader"
    /\ UNCHANGED <<trainVars, workerVars, items, loader, order, cursor, yielded,
                   prev_order>>

\* The loaders with workers: val_loader (no shuffle) over up to MaxWorkerN
\* samples, train_loader (shuffle) over up to MaxLoaderN
WorkerLoaders ==
    [n : 1..MaxWorkerN, batch_size : 1..MaxWorkerB, shuffle : {FALSE}]
        \cup [n : 1..MaxLoaderN, batch_size : 1..MaxWorkerB, shuffle : {TRUE}]

InitWorkers ==
    /\ Idle("3D", [train |-> <<>>, val |-> <<>>])
    /\ pc = "mp_loader"
    /\ items = {}
    /\ loader \in WorkerLoaders
    /\ order = <<>>
    /\ cursor = 0
    /\ yielded = <<>>
    /\ pass_no = 0
    /\ prev_order = <<>>
    /\ NoWorkers

NextWorkers ==
    StartPassWorkers \/ WorkerTake \/ WorkerPut \/ Receive \/ DeliverKept
        \/ EndPassWorkers

SpecWorkers == InitWorkers /\ [][NextWorkers]_vars

\* The batches a pass in the given order yields when the loader fetches them
\* itself, one after the other
SequentialBatches(o, b) ==
    [k \in 1..CeilDiv(Len(o), b) |-> BatchOf(o, (k - 1) * b, b)]

\* C12: with 2 worker processes, under every interleaving of the workers,
\* the batches delivered to the loop are those of sequential loading in the
\* same sampler order: at every moment the batches delivered so far are the
\* first ones of the sequential pass, in its order, and when the pass ends
\* they are all of them; none is lost, duplicated or reordered.
C12_WorkersDeliverInSamplerOrder ==
    LET seq == SequentialBatches(order, loader.batch_size) IN
    /\ pc = "mp_iterating" =>
          /\ Len(yielded) <= Len(seq)
          /\ yielded = SubSeq(seq, 1, Len(yielded))
          /\ rcvd_idx = Len(yielded)
    /\ pc = "mp_loader" /\ pass_no > 0 => yielded = seq

\* The second worker's result (batch 1) arrived before the first worker's
\* (batch 0) and was kept; by now batches 0 and 1 went to the loop in order
\* while batch 3 waits for batch 2
C12_Witness ==
    /\ pc = "mp_iterating" /\ loader.n = 5 /\ loader.batch_size = 1
    /\ yielded = <<<<0>>, <<1>>>> /\ rcvd_idx = 2 /\ send_idx = 5
    /\ \E r \in task_info : r[1] = 3

-----------------------------------------------------------------------------
(* A DicomDataset on its own: __getitem__ called on its rows                *)

\* The rows of a labels.csv and their files: an unreadable file has no
\* pixel array, a readable one decodes to h x w pixels
DatasetRows ==
    [file : {"corrupt"}, cls : Range(classes) \cup {"Other"}, h : {1}, w : {1}]
        \cup [file : {"ok"}, cls : Range(classes) \cup {"Other"},
              h : 1..MaxDim, w : 1..MaxDim]

\* The dicts a caller may pass as class_mapper: class_to_idx or a part of it
ClassMappers ==
    {[v \in S |-> class_to_idx[v]] : S \in (SUBSET DOMAIN class_to_idx) \ {{}}}

\* DicomDataset(csv_path, data_dir, class_mapper, transform): the arguments
\* are stored as they are
NewDataset ==
    /\ pc = "new"
    /\ \E rows \in SeqsUpTo(DatasetRows, ErrN), m \in ClassMappers :
         /\ data' = [train |-> rows]
         /\ dataset_sizes' = [train |-> Len(rows)]
         /\ classmapper' = m
    /\ pc' = "dataset"
    /\ UNCHANGED <<nb, batch_size, num_epochs, model, criterion, runVars,
                   standalone>>

\* train_dataset[i]
GetItemCall ==
    /\ pc = "dataset"
    /\ \E i \in 0..(Len(data["train"]) - 1) :
         items' = items \cup
                    {[idx |-> i, result |-> GetItem2D(data["train"][i + 1], classmapper)]}
    /\ UNCHANGED <<trainVars, workerVars, loader, order, cursor, yielded, pass_no,
                   prev_order, pc>>

InitDataset ==
    /\ Idle("2D", [train |-> <<>>])
    /\ pc = "new"
    /\ items = {}
    /\ loader = NoValue
    /\ order = <<>>
    /\ cursor = 0
    /\ yielded = <<>>
    /\ pass_no = 0
    /\ prev_order = <<>>
    /\ NoWorkers

NextDataset == NewDataset \/ GetItemCall

SpecDataset == InitDataset /\ [][NextDataset]_vars

\* C6, as stated: for every valid index i, __getitem__(i) with the configured
\* transform returns an image tensor of one and the same shape for every i,
\* whatever the height and width of the decoded image, and a label in {0, 1}.
C6_SameShapeForEveryIndex ==
    \A x, y \in items :
        x.result.error = "none" /\ y.result.error = "none" =>
            /\ x.result.image = y.result.image
            /\ x.result.label \in Classes

\* C13: the class mapping is a bijection between the class names and the
\* dense indices 0..len(classes)-1: class_to_idx[idx_to_class[i]] = i for
\* every index i and idx_to_class[class_to_idx[c]] = c for every class name
\* c; so the label __getitem__ returns with class_to_idx as the mapper names,
\* through idx_to_class, the class of its row.
C13_ClassMappingIsBijection ==
    /\ DOMAIN idx_to_class = 0..(Len(classes) - 1)
    /\ DOMAIN class_to_idx = Range(classes)
    /\ \A i \in 0..(Len(classes) - 1) : class_to_idx[idx_to_class[i]] = i
    /\ \A c \in Range(classes) : idx_to_class[class_to_idx[c]] = c
    /\ \A x \in items :
          x.result.error = "none" /\ classmapper = class_to_idx =>
              /\ x.result.label \in 0..(Len(classes) - 1)
              /\ idx_to_class[x.result.label] = data["train"][x.idx + 1].cls

\* Items of both classes were read from a dataset built with class_to_idx
C13_Witness ==
    /\ pc = "dataset" /\ classmapper = class_to_idx
    /\ \E x, y \in items :
          /\ x.result.error = "none" /\ x.result.label = 0
          /\ y.result.error = "none" /\ y.result.label = 1
          /\ data["train"][x.idx + 1].cls = "No Pneumothorax"
          /\ data["train"][y.idx + 1].cls = "Pneumothorax"

\* C17, as stated: after a DicomDataset is constructed from a label index
\* and a class mapper, every class label of the label index has an entry in
\* the dataset's class mapper, so that no valid index fails on label lookup.
C17_EveryLabelHasEntry ==
    pc = "dataset" =>
        /\ \A i \in DOMAIN data["train"] : data["train"][i].cls \in DOMAIN classmapper
        /\ \A x \in items : x.result.error # "KeyError"

-----------------------------------------------------------------------------
(* Errors and termination of train_model *)

\* The first row of a batch whose __getitem__ fails has a readable file and
\* a class without an entry in the class mapper
FirstFailureIsUnmapped(rows) ==
    \E i \in DOMAIN rows :
        /\ rows[i].file = "ok" /\ rows[i].cls \notin DOMAIN classmapper
        /\ \A j \in 1..(i - 1) :
              rows[j].file = "ok" /\ rows[j].cls \in DOMAIN classmapper

\* C8: __getitem__ on a row whose class has no entry in the class mapper
\* fails with a lookup error and returns no (image, label) pair: the batch
\* request that reaches such a row delivers nothing, no sample is skipped or
\* replaced (nothing is accumulated or logged, no update is made), and the
\* run stops there for good.
C8_UnmappedLabelAborts ==
    [][/\ (nb = "2D" /\ fetches' = fetches + 1
             /\ FirstFailureIsUnmapped(last_fetch'.rows)) =>
            /\ last_fetch'.error = "KeyError"
            /\ last_fetch'.labels = <<>>
            /\ pc' = "aborted"
            /\ UNCHANGED <<running_loss, running_corrects, batch_log, n_seen,
                           n_match, params, loss_over_time, epoch, returned>>
       /\ pc = "aborted" => vars' = vars]_vars

\* The second batch of a pass reached a row of an unmapped class
C8_Witness ==
    /\ nb = "2D" /\ pc = "aborted" /\ last_fetch.error = "KeyError"
    /\ n_seen > 0 /\ fetches = 2

\* The passes a run of n epochs makes, in order, each over the whole dataset
ExpectedPasses ==
    IF nb = "2D"
    THEN [k \in 1..num_epochs |-> <<k - 1, "train", Len(data["train"])>>]
    ELSE [k \in 1..(2 * num_epochs) |->
            IF k % 2 = 1 THEN <<(k - 1) \div 2, "train", Len(data["train"])>>
                         ELSE <<(k - 1) \div 2, "val", Len(data["val"])>>]

\* C9: a call of train_model with num_epochs = n on finite loaders
\* terminates: it returns after exactly n epochs (in the 3D loop each one
\* full train pass followed by one full val pass), no error having occurred,
\* or it aborts at the first failing batch request (decode, lookup or shape
\* error); after either no batch or epoch is processed.
C9_CompletesOrAborts ==
    /\ <>(pc \in {"done", "aborted"})
    /\ [](pc = "done" => passes = ExpectedPasses /\ last_fetch.error = "none")
    /\ [](pc = "aborted" <=> last_fetch.error # "none")
    /\ [][(pc \in {"done", "aborted"}) => (vars' = vars)]_vars

\* A 2D run that completed its first epoch and aborted in the second
C9_Witness ==
    /\ nb = "2D" /\ pc = "aborted" /\ epoch = 1
    /\ last_fetch.error = "ShapeError"
    /\ passes = <<<<0, "train", 3>>>>

====
